---------------------------- MODULE Spec2Model ----------------------------
(***************************************************************************)
(* A model of the crawl-and-detect engine of src/app.py:                   *)
(*   normalize_url, check_html_for_phone_fields, check_website and the     *)
(*   worker pool of process_csv.                                           *)
(*                                                                         *)
(* Python strings that the code inspects character by character (the       *)
(* website string) are sequences of one-character strings.  Attribute      *)
(* values and evidence kinds, which the code only compares, are strings.   *)
(***************************************************************************)
EXTENDS Integers, Sequences, FiniteSets, TLC

VARIABLES
    nu_pc,      \* normalize_url harness: "in", "once", "twice", or "off"
    nu_x,       \* the raw website string handed to normalize_url
    nu_r1,      \* normalize_url(x)
    nu_r2,      \* normalize_url(normalize_url(x)) when the first call succeeded
    company_data, \* company -> the request: company_name and website
    cw,         \* company -> the locals and result of its check_website call
    net,        \* company -> ghost record of the network requests it issued
    site,       \* company -> the web site answering its requests (pool runs)
    fut,        \* company -> state of its future in the executor
    results,    \* process_csv: the results list
    pool_pc,    \* process_csv: "collect", "sort", "returned", or "off"
    ex,         \* extractor harness: the HTML given and what was extracted from it
    lf          \* lead_finder.check_website: the locals of one call and its requests

vars == <<ex, lf, nu_pc, nu_x, nu_r1, nu_r2, company_data, cw, net, site, fut, results, pool_pc>>

(***************************************************************************)
(* Characters and strings                                                  *)
(***************************************************************************)
UpperChars == <<"A","B","C","D","E","F","G","H","I","J","K","L","M",
                "N","O","P","Q","R","S","T","U","V","W","X","Y","Z">>
LowerChars == <<"a","b","c","d","e","f","g","h","i","j","k","l","m",
                "n","o","p","q","r","s","t","u","v","w","x","y","z">>

\* str.lower() on one character
LowerChar(c) ==
    IF \E k \in DOMAIN UpperChars : UpperChars[k] = c
    THEN LowerChars[CHOOSE k \in DOMAIN UpperChars : UpperChars[k] = c]
    ELSE c

\* str.lower()
Lower(s) == [k \in DOMAIN s |-> LowerChar(s[k])]

\* the characters str.strip() removes
IsSpace(c) == c \in {" ", "\t", "\n", "\r"}

RECURSIVE LStrip(_)
LStrip(s) == IF s # <<>> /\ IsSpace(Head(s)) THEN LStrip(Tail(s)) ELSE s

RECURSIVE RStrip(_)
RStrip(s) ==
    IF s # <<>> /\ IsSpace(s[Len(s)]) THEN RStrip(SubSeq(s, 1, Len(s) - 1)) ELSE s

\* str.strip()
Strip(s) == RStrip(LStrip(s))

\* str.rstrip('/')
RECURSIVE RStripSlash(_)
RStripSlash(s) ==
    IF s # <<>> /\ s[Len(s)] = "/" THEN RStripSlash(SubSeq(s, 1, Len(s) - 1)) ELSE s

\* s starts with the lower-case pattern p, letter case ignored (re.IGNORECASE)
StartsWithCI(s, p) ==
    /\ Len(s) >= Len(p)
    /\ \A k \in 1..Len(p) : LowerChar(s[k]) = p[k]

Drop(s, n) == SubSeq(s, n + 1, Len(s))

HttpScheme  == <<"h","t","t","p",":","/","/">>
HttpsScheme == <<"h","t","t","p","s",":","/","/">>
WwwPrefix   == <<"w","w","w",".">>

\* re.sub(r'^(https?://)?(www\.)?', '', url, flags=re.IGNORECASE): the pattern
\* is anchored, so one optional scheme and then one optional www. are removed
StripPrefixNoCase(s) ==
    LET a == IF StartsWithCI(s, HttpsScheme) THEN Drop(s, Len(HttpsScheme))
             ELSE IF StartsWithCI(s, HttpScheme) THEN Drop(s, Len(HttpScheme))
             ELSE s
    IN  IF StartsWithCI(a, WwwPrefix) THEN Drop(a, Len(WwwPrefix)) ELSE a

\* Python's None / a returned string
None == [some |-> FALSE, val |-> <<>>]
Some(s) == [some |-> TRUE, val |-> s]

\* normalize_url without its final emptiness test
normalize_url_unchecked(url) ==
    Some(HttpsScheme \o RStripSlash(StripPrefixNoCase(Strip(url))))

\* normalize_url(url)
normalize_url(url) ==
    IF url = <<>> THEN None
    ELSE LET u == RStripSlash(StripPrefixNoCase(Strip(url)))
         IN  IF u # <<>> THEN Some(HttpsScheme \o u) ELSE None

(***************************************************************************)
(* Website strings: concatenations of at most MaxParts tokens               *)
(***************************************************************************)
MaxParts == 3

HostLower == <<"e","x","a","m","p","l","e",".","c","o","m">>
HostMixed == <<"E","x","a","m","p","l","e",".","C","O","M">>

UrlTokens ==
    { HttpScheme, HttpsScheme, <<"H","T","T","P","S",":","/","/">>,
      WwwPrefix, <<"W","W","W",".">>, HostLower, HostMixed, <<"/">>, <<" ">> }

RECURSIVE Concat(_)
Concat(parts) == IF parts = <<>> THEN <<>> ELSE Head(parts) \o Concat(Tail(parts))

TokenStrings(n) ==
    UNION { { Concat(p) : p \in [1..k -> UrlTokens] } : k \in 0..n }

UrlInputs == TokenStrings(MaxParts)

(***************************************************************************)
(* Pages: the part of an HTML document the detection strategies read        *)
(***************************************************************************)
\* an <input>: its type attribute, whether the attribute value is written in
\* quotes in the raw HTML, and its name, id and placeholder
Input(t, q, n, i, p) == [type |-> t, quoted |-> q, name |-> n, id |-> i, placeholder |-> p]

\* a <label>: its text, its for attribute, and the position in the document of
\* the <input> it wraps (0 when it wraps none)
Label(text, for, nested) == [text |-> text, for |-> for, nested |-> nested]

\* a document: its <input> and <label> elements in document order, the
\* positions of the inputs of class hs-input, the markers its raw HTML holds
\* (the substrings and patterns the form-builder and script strategies search
\* for), and its meta / og:description contents
Document(ins, labels, hs, markers, meta, og) ==
    [inputs |-> ins, labels |-> labels, hs_inputs |-> hs, markers |-> markers,
     marketo |-> "marketo" \in markers, meta |-> meta, og |-> og]

\* a document whose only marker, if any, is Marketo's
LabelledPage(ins, labels, mk, meta, og) ==
    Document(ins, labels, {}, IF mk THEN {"marketo"} ELSE {}, meta, og)

\* a document without labels
Page(ins, mk, meta, og) == LabelledPage(ins, << >>, mk, meta, og)

PHONE_KEYWORDS ==
    <<"phone", "mobile", "cell", "tel", "telephone", "callback", "call me", "call-me",
      "contact number">>

\* keyword in text (Python's substring test), over the attribute values and
\* label texts of the pages of this model
KeywordIn(kw, text) ==
    \/ text = "phone" /\ kw = "phone"
    \/ text = "mobile" /\ kw = "mobile"
    \/ text = "telephone" /\ kw \in {"phone", "tel", "telephone"}

\* an evidence item (one dict of phone_fields)
Field(t, n, i, p, d) == [type |-> t, name |-> n, id |-> i, placeholder |-> p, detection |-> d]

NATIVE_TEL == "input[type=tel]"

\* strategy 0: re.search(r'type=["\']tel["\']', html_content)
RegexTelFields(html) ==
    IF \E k \in DOMAIN html.inputs : html.inputs[k].type = "tel" /\ html.inputs[k].quoted
    THEN << Field("input[type=tel] (regex)", "", "", "", "type=tel found in HTML") >>
    ELSE << >>

\* strategy 1 reporting only the tel inputs that carry a name
RECURSIVE NativeTelFields_named_only(_)
NativeTelFields_named_only(ins) ==
    IF ins = << >> THEN << >>
    ELSE LET inp == Head(ins)
         IN  (IF inp.type = "tel" /\ inp.name # ""
              THEN << Field(NATIVE_TEL, inp.name, inp.id, inp.placeholder, "type=tel") >>
              ELSE << >>) \o NativeTelFields_named_only(Tail(ins))

\* strategy 1: soup.find_all('input', attrs={'type': 'tel'})
RECURSIVE NativeTelFields(_)
NativeTelFields(ins) ==
    IF ins = << >> THEN << >>
    ELSE LET inp == Head(ins)
         IN  (IF inp.type = "tel"
              THEN << Field(NATIVE_TEL, inp.name, inp.id, inp.placeholder, "type=tel") >>
              ELSE << >>) \o NativeTelFields(Tail(ins))

SKIPPED_INPUT_TYPES == {"hidden", "submit", "button", "checkbox", "radio", "file", "image"}

\* the first keyword of PHONE_KEYWORDS occurring in the input's combined text;
\* 0 when none does
FirstKeyword(inp) ==
    LET hits == { k \in DOMAIN PHONE_KEYWORDS :
                    \/ KeywordIn(PHONE_KEYWORDS[k], inp.name)
                    \/ KeywordIn(PHONE_KEYWORDS[k], inp.id)
                    \/ KeywordIn(PHONE_KEYWORDS[k], inp.placeholder) }
    IN  IF hits = {} THEN 0 ELSE CHOOSE k \in hits : \A j \in hits : k <= j

InSeq(x, s) == \E k \in DOMAIN s : s[k] = x

\* strategy 2: every input not of a skipped type, first matching keyword,
\* appended unless the same dict is already in phone_fields
RECURSIVE KeywordFields(_, _)
KeywordFields(ins, phone_fields) ==
    IF ins = << >> THEN phone_fields
    ELSE LET inp == Head(ins)
             k   == FirstKeyword(inp)
             field_info == Field("input[keyword match]", inp.name, inp.id, inp.placeholder,
                                 "keyword: " \o PHONE_KEYWORDS[k])
         IN  IF inp.type \in SKIPPED_INPUT_TYPES \/ k = 0
             THEN KeywordFields(Tail(ins), phone_fields)
             ELSE IF InSeq(field_info, phone_fields)
             THEN KeywordFields(Tail(ins), phone_fields)
             ELSE KeywordFields(Tail(ins), Append(phone_fields, field_info))

\* label.get_text().lower().strip(), over the label texts of this model
LabelText(text) ==
    IF text = "Phone" THEN "phone"
    ELSE IF text = " Mobile " THEN "mobile"
    ELSE IF text = "Email" THEN "email"
    ELSE text

\* the first keyword of PHONE_KEYWORDS occurring in the label's text; 0 when
\* none does
LabelKeyword(label) ==
    LET hits == { k \in DOMAIN PHONE_KEYWORDS : KeywordIn(PHONE_KEYWORDS[k], LabelText(label.text)) }
    IN  IF hits = {} THEN 0 ELSE CHOOSE k \in hits : \A j \in hits : k <= j

\* soup.find('input', {'id': for_attr}): the position of the first input with
\* that id, 0 when there is none
FindInputById(ins, for_attr) ==
    LET hits == { k \in DOMAIN ins : ins[k].id = for_attr }
    IN  IF hits = {} THEN 0 ELSE CHOOSE k \in hits : \A j \in hits : k <= j

\* the label strategy without its for/id association
RECURSIVE LabelFields_nested_only(_, _, _)
LabelFields_nested_only(labels, ins, phone_fields) ==
    IF labels = << >> THEN phone_fields
    ELSE LET label == Head(labels)
             k == LabelKeyword(label)
             nested == IF label.nested \in DOMAIN ins THEN label.nested ELSE 0
             field_info ==
                 Field("input[nested in label]", ins[nested].name, ins[nested].id,
                       ins[nested].placeholder, "nested label: " \o PHONE_KEYWORDS[k])
         IN  IF k = 0 \/ label.for # "" \/ nested = 0 \/ InSeq(field_info, phone_fields)
             THEN LabelFields_nested_only(Tail(labels), ins, phone_fields)
             ELSE LabelFields_nested_only(Tail(labels), ins, Append(phone_fields, field_info))

\* strategy 3: every label whose text holds a keyword; the input its for
\* attribute names, or else the input it wraps, appended unless the same dict
\* is already in phone_fields
RECURSIVE LabelFields(_, _, _)
LabelFields(labels, ins, phone_fields) ==
    IF labels = << >> THEN phone_fields
    ELSE LET label == Head(labels)
             k == LabelKeyword(label)
             assoc == FindInputById(ins, label.for)
             nested == IF label.nested \in DOMAIN ins THEN label.nested ELSE 0
             found == IF label.for # "" THEN assoc ELSE nested
             field_info ==
                 IF label.for # ""
                 THEN Field("input[label match]", ins[assoc].name, ins[assoc].id,
                            ins[assoc].placeholder, "label: " \o PHONE_KEYWORDS[k])
                 ELSE Field("input[nested in label]", ins[nested].name, ins[nested].id,
                            ins[nested].placeholder, "nested label: " \o PHONE_KEYWORDS[k])
         IN  IF k = 0 \/ found = 0 \/ InSeq(field_info, phone_fields)
             THEN LabelFields(Tail(labels), ins, phone_fields)
             ELSE LabelFields(Tail(labels), ins, Append(phone_fields, field_info))

\* strategy 5, Marketo: 'mktoForm' in html_content or 'marketo' in html_content.lower()
MarketoFields(html) ==
    IF html.marketo
    THEN << Field("marketo form", "", "", "", "Marketo form detected (commonly includes phone)") >>
    ELSE << >>

\* any(k in name for k in ['phone', 'mobile', 'tel'])
HubSpotPhoneName(name) == \E k \in {"phone", "mobile", "tel"} : KeywordIn(k, name)

\* the loop over hs_inputs, from position k on
RECURSIVE HubSpotInputFields(_, _, _)
HubSpotInputFields(ins, hs, k) ==
    IF k > Len(ins) THEN << >>
    ELSE (IF k \in hs /\ HubSpotPhoneName(ins[k].name)
          THEN << Field("hubspot form", ins[k].name, ins[k].id, "", "HubSpot form field") >>
          ELSE << >>) \o HubSpotInputFields(ins, hs, k + 1)

\* strategy 5, HubSpot: one item for every hs-input with a phone-like name;
\* the 'likely' item when nothing at all has been found and 'hs-form' occurs
HubSpotFields(html, phone_fields) ==
    IF ~({"hubspot", "hs-form"} \cap html.markers # {}) THEN phone_fields
    ELSE LET found == phone_fields \o HubSpotInputFields(html.inputs, html.hs_inputs, 1)
         IN  IF found = << >> /\ "hs-form" \in html.markers
             THEN << Field("hubspot form (likely)", "", "", "",
                           "HubSpot form detected (commonly includes phone)") >>
             ELSE found

\* strategy 5, the providers detected by a substring of the raw HTML alone
MarkerFields(html, marker, type, detection) ==
    IF marker \in html.markers THEN << Field(type, "", "", "", detection) >> ELSE << >>

\* 'gravity' in f.get('type', '').lower(), over the kinds of this extractor
IsGravityKind(type) == type \in {"gravity form phone field", "gravity form"}

\* strategy 5, Gravity Forms: the phone-field item for one of its two class
\* names, then the generic item unless a Gravity item is already there
GravityFields(html, phone_fields) ==
    IF "gform" \notin html.markers THEN phone_fields
    ELSE LET specific ==
                 IF "gfield--type-phone" \in html.markers
                 THEN << Field("gravity form phone field", "", "", "",
                               "Gravity Forms phone field (gfield--type-phone)") >>
                 ELSE IF "ginput_container_phone" \in html.markers
                 THEN << Field("gravity form phone field", "", "", "",
                               "Gravity Forms phone input (ginput_container_phone)") >>
                 ELSE << >>
             found == phone_fields \o specific
             gf_phone == \/ \E k \in DOMAIN html.inputs : html.inputs[k].type = "tel"
                         \/ "class phone" \in html.markers
         IN  IF /\ gf_phone \/ "gfield_contains_required" \in html.markers
                /\ ~\E k \in DOMAIN found : IsGravityKind(found[k].type)
             THEN Append(found, Field("gravity form", "", "", "", "Gravity Forms detected"))
             ELSE found

\* strategy 6: the first script pattern that matches adds the generic item,
\* and only when nothing has been found so far
CodePatternFields(html, phone_fields) ==
    IF "code pattern" \in html.markers /\ phone_fields = << >>
    THEN << Field("code pattern", "", "", "", "JavaScript/React pattern detected") >>
    ELSE phone_fields

\* f.get('detection', '').startswith('validation'): none of the detection
\* reasons this extractor writes begins with 'validation'
StartsWithValidation(detection) == FALSE

\* strategy 7: the first validation pattern that matches adds its item
\* unless an item's detection reason starts with 'validation'
ValidationFields(html, phone_fields) ==
    IF /\ "validation pattern" \in html.markers
       /\ ~\E k \in DOMAIN phone_fields : StartsWithValidation(phone_fields[k].detection)
    THEN Append(phone_fields, Field("phone validation library", "", "", "",
                                    "Phone validation/formatting library detected"))
    ELSE phone_fields

\* the key of the extractor's final deduplication
ExtractKey(f) == << f.name, f.id, f.type, f.detection >>

\* a deduplication that drops an item only when it repeats the item before it
RECURSIVE DedupExtract_adjacent(_, _)
DedupExtract_adjacent(fields, seen) ==
    IF fields = << >> THEN << >>
    ELSE LET key == ExtractKey(Head(fields))
         IN  IF key \in seen THEN DedupExtract_adjacent(Tail(fields), {key})
             ELSE << Head(fields) >> \o DedupExtract_adjacent(Tail(fields), {key})

RECURSIVE DedupExtract(_, _)
DedupExtract(fields, seen) ==
    IF fields = << >> THEN << >>
    ELSE LET key == ExtractKey(Head(fields))
         IN  IF key \in seen THEN DedupExtract(Tail(fields), seen)
             ELSE << Head(fields) >> \o DedupExtract(Tail(fields), seen \cup {key})

\* check_html_for_phone_fields(html_content), first component of its result.
\* The documents of this model hold no div, span or p of a field, input or
\* form class, so the wrapper strategy (4) finds nothing in them.
check_html_for_phone_fields(html) ==
    LET s01 == RegexTelFields(html) \o NativeTelFields(html.inputs)
        s2  == KeywordFields(html.inputs, s01)
        s3  == LabelFields(html.labels, html.inputs, s2)
        hub == HubSpotFields(html, s3)
        emb == hub \o MarketoFields(html)
                 \o MarkerFields(html, "pardot", "pardot form",
                                 "Pardot form detected (commonly includes phone)")
                 \o MarkerFields(html, "typeform.com", "typeform embed",
                                 "Typeform detected (likely has phone field)")
                 \o MarkerFields(html, "calendly.com", "calendly embed",
                                 "Calendly detected (may request phone)")
                 \o MarkerFields(html, "jotform", "jotform embed",
                                 "JotForm detected (commonly includes phone)")
        s5  == GravityFields(html, emb)
                 \o MarkerFields(html, "wpforms", "wpforms",
                                 "WPForms detected (commonly includes phone)")
        s6  == CodePatternFields(html, s5)
        s7  == ValidationFields(html, s6)
    IN  DedupExtract(s7, {})

DESCRIPTION_LIMIT == 300

Take(s, n) == SubSeq(s, 1, IF Len(s) < n THEN Len(s) ELSE n)

\* extract_meta_description(soup)
extract_meta_description(html) ==
    IF html.meta # << >> THEN Take(html.meta, DESCRIPTION_LIMIT)
    ELSE IF html.og # << >> THEN Take(html.og, DESCRIPTION_LIMIT)
    ELSE << >>

\* The pages a request of this model can return
TelQuoted   == Input("tel", TRUE, "phone", "", "")
TelBare     == Input("tel", FALSE, "", "", "")
TextPhone   == Input("text", TRUE, "", "", "phone")
TextMobile  == Input("text", TRUE, "", "", "mobile")
TextEmail   == Input("email", TRUE, "email", "email", "")
HiddenPhone == Input("hidden", TRUE, "phone", "", "")

Desc == <<"d","e","s","c">>

SamplePages ==
    { Page(<< >>, FALSE, << >>, << >>),
      Page(<< TextEmail, HiddenPhone >>, FALSE, Desc, << >>),
      Page(<< TelQuoted >>, FALSE, << >>, Desc),
      Page(<< TelBare >>, FALSE, << >>, << >>),
      Page(<< TextPhone >>, FALSE, Desc, << >>),
      Page(<< TextMobile >>, FALSE, << >>, << >>),
      Page(<< TextPhone, TextMobile >>, FALSE, << >>, << >>),
      Page(<< TextPhone, TextPhone >>, FALSE, << >>, << >>),
      Page(<< >>, TRUE, << >>, << >>),
      Page(<< TextEmail >>, TRUE, Desc, << >>) }

(***************************************************************************)
(* lead_finder.py: check_for_phone_field, find_form_pages, check_website   *)
(***************************************************************************)
PHONE_INDICATORS ==
    <<"phone", "tel", "mobile", "cell", "contact_number", "phone_number",
      "phonenumber", "telephone", "contact-phone", "phone-number", "phoneNumber">>

\* indicator in text (Python's substring test), over the attribute values and
\* lowered label texts of the pages of this model
IndicatorIn(ind, text) ==
    \/ text = "phone" /\ ind = "phone"
    \/ text \in {"mobile", " mobile "} /\ ind = "mobile"
    \/ text = "telephone" /\ ind \in {"phone", "tel", "telephone"}

\* label.get_text().lower(), over the label texts of this model
LowerLabelText(text) ==
    IF text = "Phone" THEN "phone"
    ELSE IF text = " Mobile " THEN " mobile "
    ELSE IF text = "Email" THEN "email"
    ELSE text

\* the text of the first label whose for attribute is the input's id; empty
\* when the input has no id or no label points at it
AssociatedLabelText(html, inp) ==
    LET hits == { k \in DOMAIN html.labels : html.labels[k].for = inp.id }
    IN  IF inp.id = "" \/ hits = {} THEN ""
        ELSE LowerLabelText(html.labels[CHOOSE k \in hits : \A j \in hits : k <= j].text)

\* the first indicator of PHONE_INDICATORS found in the input's name, id,
\* placeholder or label text; 0 when none is
FirstIndicator(html, inp) ==
    LET label_text == AssociatedLabelText(html, inp)
        hits == { k \in DOMAIN PHONE_INDICATORS :
                    \/ IndicatorIn(PHONE_INDICATORS[k], inp.name)
                    \/ IndicatorIn(PHONE_INDICATORS[k], inp.id)
                    \/ IndicatorIn(PHONE_INDICATORS[k], inp.placeholder)
                    \/ IndicatorIn(PHONE_INDICATORS[k], label_text) }
    IN  IF hits = {} THEN 0 ELSE CHOOSE k \in hits : \A j \in hits : k <= j

\* soup.find_all('input', attrs={'type': 'tel'}): one item per tel input
RECURSIVE TelInputFields(_)
TelInputFields(ins) ==
    IF ins = << >> THEN << >>
    ELSE LET inp == Head(ins)
         IN  (IF inp.type = "tel"
              THEN << [type |-> "input[type=tel]", name |-> inp.name, id |-> inp.id,
                       placeholder |-> inp.placeholder] >>
              ELSE << >>) \o TelInputFields(Tail(ins))

\* every input that matches an indicator and is not of type tel adds an item
RECURSIVE IndicatorFields(_, _)
IndicatorFields(html, ins) ==
    IF ins = << >> THEN << >>
    ELSE LET inp == Head(ins)
             k   == FirstIndicator(html, inp)
         IN  (IF k # 0 /\ inp.type # "tel"
              THEN << [type |-> "input[name/id/placeholder match]", name |-> inp.name,
                       id |-> inp.id, placeholder |-> inp.placeholder,
                       matched_on |-> PHONE_INDICATORS[k]] >>
              ELSE << >>) \o IndicatorFields(html, Tail(ins))

\* check_for_phone_field(html_content, url); the documents of this model hold
\* no <form> element
check_for_phone_field(html) ==
    LET phone_fields_found == TelInputFields(html.inputs) \o IndicatorFields(html, html.inputs)
    IN  [has_phone_field |-> Len(phone_fields_found) > 0,
         phone_fields |-> phone_fields_found,
         total_forms |-> 0]

\* an <a href> of the homepage: kind "form" when a form keyword occurs in its
\* href or text and it stays on the site, "plain" when no keyword occurs,
\* "external" when the keyword link leaves the site, "malformed" when urljoin
\* or urlparse raises on the keyword link; target is the joined URL
Link(kind, target) == [kind |-> kind, target |-> target]

\* the loop of find_form_pages: same-site keyword links, each URL once
RECURSIVE FormPages(_, _)
FormPages(links, form_pages) ==
    IF links = << >> THEN form_pages
    ELSE LET link == Head(links)
         IN  IF link.kind = "form" /\ ~InSeq(link.target, form_pages)
             THEN FormPages(Tail(links), Append(form_pages, link.target))
             ELSE FormPages(Tail(links), form_pages)

FORM_PAGES_LIMIT == 5

\* find_form_pages returning every page it found
find_form_pages_unlimited(links) ==
    [raised |-> \E k \in DOMAIN links : links[k].kind = "malformed",
     pages |-> FormPages(links, << >>)]

\* find_form_pages(base_url, html_content): return form_pages[:5]
find_form_pages(links) ==
    [raised |-> \E k \in DOMAIN links : links[k].kind = "malformed",
     pages |-> Take(FormPages(links, << >>), FORM_PAGES_LIMIT)]

\* what one requests.get can do: return a response (its status, its document,
\* the links of the document, whether a redirect was followed), or raise
LeadResponse(st, html, links, redirected) ==
    [kind |-> "response", status |-> st, html |-> html, links |-> links,
     redirected |-> redirected]
LeadRaises(exc) ==
    [kind |-> exc, status |-> 0, html |-> Page(<< >>, FALSE, << >>, << >>),
     links |-> << >>, redirected |-> FALSE]

\* response.raise_for_status() raises HTTPError
RaiseForStatus(o) == o.status \in 400..599

\* url.startswith('http')
StartsWithHttp(url) == Len(url) >= 4 /\ SubSeq(url, 1, 4) = <<"h","t","t","p">>

\* the result dict check_website builds first
LeadResult(url) ==
    [url |-> url, status |-> "unknown", has_phone_field |-> FALSE, phone_fields |-> << >>,
     pages_checked |-> << >>, error |-> "<None>", final_url |-> "<unset>"]

\* response.url: the URL after redirects
FinalUrl(url, o) == IF o.redirected THEN url \o <<"/","e","n">> ELSE url

LfOff == [pc |-> "off"]

\* a call of check_website(url, check_subpages) about to start; home and
\* requests record the requests it issues
NewLead(url, check_subpages) ==
    [pc |-> "start", url |-> url, check_subpages |-> check_subpages,
     form_pages |-> << >>, k |-> 1, result |-> << >>,
     home |-> << >>, requests |-> << >>]

\* lines 122-147: fix the URL, build the result, fetch and check the main
\* page, and find the form pages; lines 166-174 when something raised
HomeStep(l, o) ==
    LET url == IF StartsWithHttp(l.url) THEN l.url ELSE HttpsScheme \o l.url
        result == LeadResult(url)
        main_check == check_for_phone_field(o.html)
        checked == [result EXCEPT !.final_url = FinalUrl(url, o),
                                  !.pages_checked = << [url |-> url, result |-> main_check] >>,
                                  !.has_phone_field = main_check.has_phone_field,
                                  !.phone_fields = main_check.phone_fields]
        form_pages == find_form_pages(o.links)
        seen == [l EXCEPT !.url = url, !.home = << o >>]
    IN  IF o.kind = "Timeout"
        THEN [seen EXCEPT !.pc = "done",
                          !.result = [result EXCEPT !.status = "error", !.error = "Timeout"]]
        ELSE IF o.kind # "response"
        THEN [seen EXCEPT !.pc = "done",
                          !.result = [result EXCEPT !.status = "error", !.error = o.kind]]
        ELSE IF RaiseForStatus(o)
        THEN [seen EXCEPT !.pc = "done",
                          !.result = [result EXCEPT !.status = "error", !.error = "HTTPError"]]
        ELSE IF ~(l.check_subpages /\ ~checked.has_phone_field)
        THEN [seen EXCEPT !.pc = "subpages", !.result = checked]
        ELSE IF form_pages.raised
        THEN [seen EXCEPT !.pc = "done",
                          !.result = [checked EXCEPT !.status = "error", !.error = "ValueError"]]
        ELSE [seen EXCEPT !.pc = "subpages", !.result = checked, !.form_pages = form_pages.pages]

\* lines 149-161: one pass of the loop over form_pages; an exception is
\* ignored, a phone field ends the loop
SubpageStep(l, o) ==
    LET page_url == l.form_pages[l.k]
        page_check == check_for_phone_field(o.html)
        asked == [l EXCEPT !.requests = Append(l.requests, [url |-> page_url, outcome |-> o])]
    IN  IF o.kind # "response"
        THEN [asked EXCEPT !.k = l.k + 1]
        ELSE IF page_check.has_phone_field
        THEN [asked EXCEPT !.k = Len(l.form_pages) + 1,
                           !.result.pages_checked =
                               Append(@, [url |-> page_url, result |-> page_check]),
                           !.result.has_phone_field = TRUE,
                           !.result.phone_fields = @ \o page_check.phone_fields]
        ELSE [asked EXCEPT !.k = l.k + 1,
                           !.result.pages_checked =
                               Append(@, [url |-> page_url, result |-> page_check])]

\* line 163: result['status'] = 'success', and the return
FinishStep(l) == [l EXCEPT !.pc = "done", !.result.status = "success"]

LeadHome(o) ==
    /\ lf.pc = "start"
    /\ lf' = HomeStep(lf, o)
    /\ UNCHANGED <<ex, nu_pc, nu_x, nu_r1, nu_r2, company_data, cw, net, site, fut, results, pool_pc>>

LeadSubpage(o) ==
    /\ lf.pc = "subpages"
    /\ lf.k <= Len(lf.form_pages)
    /\ lf' = SubpageStep(lf, o)
    /\ UNCHANGED <<ex, nu_pc, nu_x, nu_r1, nu_r2, company_data, cw, net, site, fut, results, pool_pc>>

LeadReturn ==
    /\ lf.pc = "subpages"
    /\ lf.k > Len(lf.form_pages)
    /\ lf' = FinishStep(lf)
    /\ UNCHANGED <<ex, nu_pc, nu_x, nu_r1, nu_r2, company_data, cw, net, site, fut, results, pool_pc>>

(***************************************************************************)
(* SpecExtract: check_html_for_phone_fields applied to a document, and      *)
(* applied to it again                                                     *)
(***************************************************************************)
MaxInputs == 2
MaxLabels == 1

\* the inputs of the documents: tel inputs of every name, id and quoting of a
\* small vocabulary, text inputs that match a keyword by name or placeholder
\* or match none, and a hidden input
ExtractInputs ==
    { Input("tel", q, n, i, "") : q \in BOOLEAN, n \in {"", "phone"}, i \in {"", "p"} }
      \cup { Input("text", TRUE, n, i, "") : n \in {"", "phone"}, i \in {"", "p"} }
      \cup { TextPhone, TextMobile, HiddenPhone }

\* the markers of the raw HTML, as they occur together
ExtractMarkers ==
    { {}, {"marketo"}, {"code pattern"}, {"validation pattern"},
      {"code pattern", "validation pattern"},
      {"hubspot", "hs-form"},
      {"gform", "gfield--type-phone", "class phone"},
      {"pardot", "typeform.com", "calendly.com", "jotform", "wpforms"} }

ExtractLabels ==
    { Label("Phone", "p", 0), Label(" Mobile ", "", 1), Label("Email", "p", 0) }

SeqsUpTo(S, n) == UNION { [1..k -> S] : k \in 0..n }

\* documents of inputs and labels
LabelDocuments ==
    { Document(ins, labels, {}, {}, << >>, << >>) :
        ins \in SeqsUpTo(ExtractInputs, MaxInputs),
        labels \in SeqsUpTo(ExtractLabels, MaxLabels) }

\* documents of inputs and markers; in a HubSpot document every input is of
\* class hs-input
MarkerDocuments ==
    { Document(ins, << >>, IF "hubspot" \in markers THEN DOMAIN ins ELSE {}, markers,
               << >>, << >>) :
        ins \in SeqsUpTo(ExtractInputs, MaxInputs),
        markers \in ExtractMarkers }

\* the harness at rest
ExOff == [pc |-> "off", html |-> Page(<< >>, FALSE, << >>, << >>), out |-> << >>, again |-> << >>]

ExtractInit ==
    /\ \/ \E h \in LabelDocuments : ex = [ExOff EXCEPT !.pc = "in", !.html = h]
       \/ \E h \in MarkerDocuments : ex = [ExOff EXCEPT !.pc = "in", !.html = h]
    /\ lf = LfOff
    /\ nu_pc = "off" /\ nu_x = << >> /\ nu_r1 = None /\ nu_r2 = None
    /\ company_data = << >> /\ cw = << >> /\ net = << >> /\ site = << >> /\ fut = << >>
    /\ results = << >> /\ pool_pc = "off"

\* fields, soup = check_html_for_phone_fields(html)
ExtractOnce ==
    /\ ex.pc = "in"
    /\ ex' = [ex EXCEPT !.pc = "once", !.out = check_html_for_phone_fields(ex.html)]
    /\ UNCHANGED <<lf, nu_pc, nu_x, nu_r1, nu_r2, company_data, cw, net, site, fut, results, pool_pc>>

\* the same document extracted again, the two results concatenated and
\* deduplicated by the extractor's own deduplication
ExtractTwice ==
    /\ ex.pc = "once"
    /\ ex' = [ex EXCEPT !.pc = "twice",
                        !.again = DedupExtract(ex.out \o check_html_for_phone_fields(ex.html), {})]
    /\ UNCHANGED <<lf, nu_pc, nu_x, nu_r1, nu_r2, company_data, cw, net, site, fut, results, pool_pc>>

ExtractNext == ExtractOnce \/ ExtractTwice

SpecExtract == ExtractInit /\ [][ExtractNext]_vars

\* C11: for every document holding an input whose type attribute equals tel,
\* whatever its name, id and quoting and whatever else the document holds, the
\* extractor returns at least one item of kind 'input[type=tel]'.
C11_NativeTelAlwaysFound ==
    (ex.pc \in {"once", "twice"} /\ \E k \in DOMAIN ex.html.inputs : ex.html.inputs[k].type = "tel")
        => \E i \in DOMAIN ex.out : ex.out[i].type = NATIVE_TEL

\* a lone tel input without quotes, name or id: the native item is all there is
C11_Witness ==
    /\ ex.pc = "once"
    /\ ex.html.inputs = << Input("tel", FALSE, "", "", "") >>
    /\ ex.html.labels = << >> /\ ex.html.markers = {}
    /\ Len(ex.out) = 1
    /\ ex.out[1].type = NATIVE_TEL

\* C14: extracting a document twice and deduplicating the concatenation of the
\* two results gives the items that deduplicating one result gives, each once.
C14_DedupIdempotent ==
    ex.pc = "twice" => ex.again = DedupExtract(ex.out, {})

\* a document whose two equal tel inputs give one native item, among others
C14_Witness ==
    /\ ex.pc = "twice"
    /\ Len(ex.html.inputs) = 2
    /\ ex.html.inputs[1] = ex.html.inputs[2]
    /\ ex.html.inputs[1].type = "tel"
    /\ Len(ex.out) >= 2
    /\ Cardinality({ i \in DOMAIN ex.again : ex.again[i].type = NATIVE_TEL }) = 1

Extracted == ex.pc \in {"once", "twice"}

\* C23: the list the extractor returns for a document never holds two items
\* with the same (kind, name, id) triple.
C23_ExtractorListDistinctByTriple ==
    Extracted =>
        \A i, j \in DOMAIN ex.out :
            i # j => << ex.out[i].type, ex.out[i].name, ex.out[i].id >>
                       # << ex.out[j].type, ex.out[j].name, ex.out[j].id >>

\* the inputs the native tel and keyword strategies record
CapturedEarlier(ins) ==
    { k \in DOMAIN ins :
        \/ ins[k].type = "tel"
        \/ ins[k].type \notin SKIPPED_INPUT_TYPES /\ FirstKeyword(ins[k]) # 0 }

\* the inputs the label strategy can have taken the item f from: the input a
\* keyword label names by for/id, or the input a keyword label wraps
LabelTargets(html, f) ==
    { k \in DOMAIN html.inputs :
        /\ << html.inputs[k].name, html.inputs[k].id, html.inputs[k].placeholder >>
              = << f.name, f.id, f.placeholder >>
        /\ \E n \in DOMAIN html.labels :
              LET label == html.labels[n]
              IN  /\ LabelKeyword(label) # 0
                  /\ \/ /\ f.type = "input[label match]" /\ label.for # ""
                        /\ k = FindInputById(html.inputs, label.for)
                     \/ /\ f.type = "input[nested in label]" /\ label.for = ""
                        /\ k = label.nested }

\* C24: the label strategy records an input only if no earlier strategy has
\* recorded it: every label item of the result is there for an input that
\* the native tel and keyword strategies did not record.
C24_LabelSkipsCapturedInputs ==
    Extracted =>
        \A i \in DOMAIN ex.out :
            ex.out[i].type \in {"input[label match]", "input[nested in label]"} =>
                \E k \in LabelTargets(ex.html, ex.out[i]) : k \notin CapturedEarlier(ex.html.inputs)

SCRIPT_KINDS == {"code pattern", "phone validation library"}

\* C25: an item of a script-pattern kind (code pattern or validation library)
\* is in the result only as its one and only item.
C25_ScriptPatternOnlyAlone ==
    Extracted =>
        \A i \in DOMAIN ex.out :
            ex.out[i].type \in SCRIPT_KINDS => Len(ex.out) = 1

\* the kinds of evidence of each form-builder provider
PROVIDER_KINDS ==
    { {"hubspot form", "hubspot form (likely)"}, {"marketo form"}, {"pardot form"},
      {"typeform embed"}, {"calendly embed"}, {"jotform embed"},
      {"gravity form phone field", "gravity form"}, {"wpforms"} }

\* C26: the result holds at most one item of each form-builder provider.
C26_OneItemPerProvider ==
    Extracted =>
        \A kinds \in PROVIDER_KINDS :
            Cardinality({ i \in DOMAIN ex.out : ex.out[i].type \in kinds }) <= 1

(***************************************************************************)
(* check_website                                                           *)
(***************************************************************************)
PAGES_TO_CHECK ==
    << "/", "/contact", "/contact/", "/contact-us", "/contact-us/", "/get-quote",
       "/get-quote/", "/quote", "/quote/", "/get-a-quote", "/get-a-quote/",
       "/free-quote", "/get-started", "/get-started/", "/start", "/signup", "/sign-up",
       "/register", "/demo", "/demo/", "/request-demo", "/book-demo", "/schedule",
       "/schedule/", "/talk-to-us", "/request-callback", "/apply", "/apply/", "/enroll",
       "/get-pricing", "/pricing", "/pricing/", "/plans" >>

PAGE_LIMIT == 12

\* the loop run over the whole list
PagesChecked_whole_list == PAGES_TO_CHECK

\* PAGES_TO_CHECK[:12]
PagesChecked == SubSeq(PAGES_TO_CHECK, 1, PAGE_LIMIT)

\* the value of result['error'] while it is Python's None
NO_ERROR == "<None>"

\* what one req.get and the extraction that follows it can do: return a
\* response (whose extraction may raise), or raise
Response(st, html, boom) ==
    [kind |-> "response", status |-> st, html |-> html, extract_raises |-> boom]
Raises(exc) ==
    [kind |-> exc, status |-> 0, html |-> Page(<< >>, FALSE, << >>, << >>),
     extract_raises |-> FALSE]

EmptyPage == Page(<< >>, FALSE, << >>, << >>)

Statuses == {200, 204, 404, 500}

Outcomes ==
    { Response(200, h, FALSE) : h \in SamplePages }
      \cup { Response(st, EmptyPage, FALSE) : st \in Statuses \ {200} }
      \cup { Response(200, EmptyPage, TRUE) }
      \cup { Raises(e) : e \in {"Timeout", "RequestException", "Exception"} }

\* the result dict check_website builds first
InitialResult(cd) ==
    [ company_name |-> cd.company_name,
      website |-> cd.website,
      has_phone_field |-> FALSE,
      phone_field_details |-> << >>,
      status |-> "pending",
      error |-> NO_ERROR,
      scraped_description |-> << >>,
      pages_checked |-> 0 ]

\* the locals of one check_website call before its first statement
NewCall(cd) ==
    [ pc |-> "start", url |-> None, idx |-> 1, phone_fields |-> << >>,
      description |-> << >>, pages_checked |-> 0, result |-> InitialResult(cd) ]

\* lines 445-475: build result, normalize the URL, return at once when it is
\* invalid, otherwise enter the loop
StartCall(l, cd) ==
    LET url == normalize_url(cd.website)
    IN  IF ~url.some
        THEN [l EXCEPT !.pc = "done", !.url = url,
                       !.result = [InitialResult(cd) EXCEPT !.status = "error",
                                                             !.error = "Invalid URL"]]
        ELSE [l EXCEPT !.pc = "loop", !.url = url, !.result = InitialResult(cd)]

\* the status test left out: every response counts as a fetched page
FetchSucceeded_any_status(o) == o.kind = "response"

\* response.status_code != 200 -> continue
FetchSucceeded(o) == o.kind = "response" /\ o.status = 200

\* the except clauses without the final catch-all
Handled_requests_only(exc) == exc \in {"Timeout", "RequestException"}

\* the except clauses of the loop body: Timeout, RequestException, Exception
Handled(exc) == exc \in {"Timeout", "RequestException", "Exception"}

\* the stop test without the strong-evidence disjunct
ShouldStop_count_only(fields, phone_fields) == Len(phone_fields) >= 2

\* strong_evidence or len(phone_fields) >= 2
ShouldStop(fields, phone_fields) ==
    \/ \E k \in DOMAIN fields : fields[k].type = NATIVE_TEL
    \/ Len(phone_fields) >= 2

\* an iteration that ends on the page it began with
NextPage_same_page(l) == l

\* the end of one loop iteration that did not break
NextPage(l) ==
    IF l.idx + 1 > Len(PagesChecked)
    THEN [l EXCEPT !.idx = l.idx + 1, !.pc = "assemble"]
    ELSE [l EXCEPT !.idx = l.idx + 1]

\* an exception that ends the loop instead of the iteration
OnException_abort(l, exc) ==
    IF Handled(exc) THEN [l EXCEPT !.pc = "assemble"] ELSE [l EXCEPT !.pc = "raised"]

\* an exception raised inside the try block
OnException(l, exc) ==
    IF Handled(exc) THEN NextPage(l) ELSE [l EXCEPT !.pc = "raised"]

\* the description taken from the first page that has one
CaptureDescription_any_page(l, page_path, html) ==
    IF l.description = << >>
    THEN [l EXCEPT !.description = extract_meta_description(html)]
    ELSE l

\* if page_path == '/' and not description: description = extract_meta_description(soup)
CaptureDescription(l, page_path, html) ==
    IF page_path = "/" /\ l.description = << >>
    THEN [l EXCEPT !.description = extract_meta_description(html)]
    ELSE l

\* lines 477-503: one iteration of the loop, the request answered by o
LoopBody(l, o) ==
    IF o.kind # "response" THEN OnException(l, o.kind)
    ELSE IF ~FetchSucceeded(o) THEN NextPage(l)
    ELSE LET counted == [l EXCEPT !.pages_checked = l.pages_checked + 1]
         IN  IF o.extract_raises THEN OnException(counted, "Exception")
             ELSE LET fields == check_html_for_phone_fields(o.html)
                      described == CaptureDescription(counted, PagesChecked[l.idx], o.html)
                      extended == [described EXCEPT !.phone_fields = l.phone_fields \o fields]
                  IN  IF fields = << >> THEN NextPage(described)
                      ELSE IF ShouldStop(fields, extended.phone_fields)
                      THEN [extended EXCEPT !.pc = "assemble"]
                      ELSE NextPage(extended)

\* the final key with the detection reason in it, as in the extractor's key
FinalKey_with_detection(f) == << f.name, f.id, f.type, f.detection >>

\* the key of check_website's final deduplication
FinalKey(f) == << f.name, f.id, f.type >>

RECURSIVE DedupFinal(_, _)
DedupFinal(fields, seen) ==
    IF fields = << >> THEN << >>
    ELSE LET key == FinalKey(Head(fields))
         IN  IF key \in seen THEN DedupFinal(Tail(fields), seen)
             ELSE << Head(fields) >> \o DedupFinal(Tail(fields), seen \cup {key})

\* an off-by-one in the emptiness test
HasPhoneField_off_by_one(unique_fields) == Len(unique_fields) > 1

\* result['has_phone_field'] = len(unique_fields) > 0
HasPhoneField(unique_fields) == Len(unique_fields) > 0

\* a status that asks for more than one fetched page
StatusOf_two_pages(pages_checked) == IF pages_checked > 1 THEN "success" ELSE "error"

\* result['status'] = 'success' if pages_checked > 0 else 'error'
StatusOf(pages_checked) == IF pages_checked > 0 THEN "success" ELSE "error"

\* lines 505-528: deduplicate, fill in the result and return it
\* (sellence_reasons, canned marketing copy, is left out of the result)
Assemble(l) ==
    LET unique_fields == DedupFinal(l.phone_fields, {})
    IN  [l EXCEPT !.pc = "done",
                  !.result = [l.result EXCEPT
                      !.has_phone_field = HasPhoneField(unique_fields),
                      !.phone_field_details = unique_fields,
                      !.scraped_description = l.description,
                      !.pages_checked = l.pages_checked,
                      !.status = StatusOf(l.pages_checked),
                      !.error = IF l.pages_checked = 0 THEN "Could not access website"
                                ELSE l.result.error]]

\* phone_fields kept in one list shared by all calls instead of a local
Store_shared_evidence(f, c, l) ==
    [d \in DOMAIN f |->
        IF d = c THEN l ELSE [f[d] EXCEPT !.phone_fields = l.phone_fields]]

\* the locals of a call are its own: a step of company c writes c's locals only
Store(f, c, l) == [f EXCEPT ![c] = l]

\* ghost: the requests a call has issued (the page paths, in the order of the
\* requests), and whether each of them failed (non-2xx status, timeout or
\* network error)
NoRequests == [attempts |-> 0, all_failed |-> TRUE, caught |-> FALSE, requested |-> << >>]

FetchFailed(o) ==
    \/ o.kind \in {"Timeout", "RequestException"}
    \/ o.kind = "response" /\ ~(o.status \in 200..299)

Requested(n, o, page_path) ==
    [attempts |-> n.attempts + 1,
     all_failed |-> n.all_failed /\ FetchFailed(o),
     caught |-> n.caught \/ o.kind # "response" \/ (FetchSucceeded(o) /\ o.extract_raises),
     requested |-> Append(n.requested, page_path)]

\* a call may take steps when it runs directly or on a worker thread
Running(c) == fut[c] \in {"direct", "running"}

Call(c) ==
    /\ Running(c)
    /\ cw[c].pc = "start"
    /\ cw' = Store(cw, c, StartCall(cw[c], company_data[c]))
    /\ UNCHANGED <<ex, lf, nu_pc, nu_x, nu_r1, nu_r2, company_data, net, site, fut, results, pool_pc>>

Visit(c, o) ==
    /\ Running(c)
    /\ cw[c].pc = "loop"
    /\ cw' = Store(cw, c, LoopBody(cw[c], o))
    /\ net' = [net EXCEPT ![c] = Requested(net[c], o, PagesChecked[cw[c].idx])]
    /\ UNCHANGED <<ex, lf, nu_pc, nu_x, nu_r1, nu_r2, company_data, site, fut, results, pool_pc>>

Return(c) ==
    /\ Running(c)
    /\ cw[c].pc = "assemble"
    /\ cw' = Store(cw, c, Assemble(cw[c]))
    /\ UNCHANGED <<ex, lf, nu_pc, nu_x, nu_r1, nu_r2, company_data, net, site, fut, results, pool_pc>>

(***************************************************************************)
(* Spec: one direct call of check_website, every request answered by any   *)
(* outcome                                                                 *)
(***************************************************************************)
MaxSiteParts == 2

SiteTokens == { HttpsScheme, WwwPrefix, HostMixed, <<"/">>, <<" ">> }

Websites ==
    UNION { { Concat(p) : p \in [1..k -> SiteTokens] } : k \in 0..MaxSiteParts }

Init ==
    /\ ex = ExOff /\ lf = LfOff
    /\ nu_pc = "off" /\ nu_x = << >> /\ nu_r1 = None /\ nu_r2 = None
    /\ \E w \in Websites :
          company_data = << [company_name |-> <<"A">>, website |-> w] >>
    /\ cw = << NewCall(company_data[1]) >>
    /\ net = << NoRequests >>
    /\ site = << >>
    /\ fut = << "direct" >>
    /\ results = << >>
    /\ pool_pc = "off"

Next ==
    \/ Call(1)
    \/ \E o \in Outcomes : Visit(1, o)
    \/ Return(1)

Spec == Init /\ [][Next]_vars

(***************************************************************************)
(* Properties of one check_website call (checked under Spec)                *)
(***************************************************************************)
Returned(c) == cw[c].pc = "done"
Verdict(c) == cw[c].result

\* the deduplication identity of an evidence item: (kind, name, id)
Identity(f) == << f.type, f.name, f.id >>
Identities(fields) == { Identity(fields[k]) : k \in DOMAIN fields }
Items(fields) == { fields[k] : k \in DOMAIN fields }

\* C1: in every returned verdict, has_phone_field is true exactly when the
\* evidence list phone_field_details is non-empty.
C1_HasPhoneIffEvidence ==
    \A c \in DOMAIN cw :
        Returned(c) =>
            (Verdict(c).has_phone_field <=> Verdict(c).phone_field_details # << >>)

C1_Witness ==
    /\ Returned(1)
    /\ Verdict(1).status = "success"
    /\ Verdict(1).has_phone_field
    /\ Len(Verdict(1).phone_field_details) = 1

\* C2: the evidence list of a returned verdict holds no two items with the same
\* (kind, name, id) triple.
C2_NoDuplicateIdentity ==
    \A c \in DOMAIN cw :
        Returned(c) =>
            \A i, j \in DOMAIN Verdict(c).phone_field_details :
                i # j => Identity(Verdict(c).phone_field_details[i])
                           # Identity(Verdict(c).phone_field_details[j])

\* the accumulated list held two items of one identity that differ in their
\* detection reason, and the verdict kept one of them
C2_Witness ==
    /\ Returned(1)
    /\ \E i, j \in DOMAIN cw[1].phone_fields :
          /\ i # j
          /\ Identity(cw[1].phone_fields[i]) = Identity(cw[1].phone_fields[j])
          /\ cw[1].phone_fields[i].detection # cw[1].phone_fields[j].detection
    /\ Len(Verdict(1).phone_field_details) = 1

\* the stop policy's condition on the evidence accumulated so far
StopCondition(fields) ==
    \/ \E k \in DOMAIN fields : fields[k].type = NATIVE_TEL
    \/ Cardinality(Identities(fields)) >= 2

\* C3: once the accumulated evidence holds a native telephone input item or two
\* items of distinct identity, no further request is issued, the accumulated
\* evidence and the pages-fetched count stay as they are, and the verdict
\* reports exactly them.
C3_EarlyStopBound ==
    [][ \A c \in DOMAIN cw :
          StopCondition(cw[c].phone_fields) =>
            /\ net'[c] = net[c]
            /\ cw'[c].phone_fields = cw[c].phone_fields
            /\ cw'[c].pages_checked = cw[c].pages_checked
            /\ cw'[c].pc = "done" =>
                  /\ cw'[c].result.pages_checked = cw[c].pages_checked
                  /\ Items(cw'[c].result.phone_field_details) \subseteq Items(cw[c].phone_fields)
                  /\ Identities(cw'[c].result.phone_field_details)
                        = Identities(cw[c].phone_fields) ]_vars

\* a call that stopped on a lone native telephone input before the last page
C3_Witness ==
    /\ Returned(1)
    /\ StopCondition(cw[1].phone_fields)
    /\ Len(cw[1].phone_fields) = 1
    /\ net[1].attempts < PAGE_LIMIT
    /\ Verdict(1).pages_checked < net[1].attempts

\* C5: check_website never raises; it returns a verdict whose status is
\* 'success' or 'error', and an 'error' verdict carries a non-empty reason.
C5_AlwaysAVerdict ==
    \A c \in DOMAIN cw :
        /\ cw[c].pc # "raised"
        /\ Returned(c) =>
              /\ Verdict(c).status \in {"success", "error"}
              /\ Verdict(c).status = "error" => Verdict(c).error \notin {NO_ERROR, ""}

\* a verdict returned after an exception was caught on every page
C5_Witness ==
    /\ Returned(1)
    /\ net[1].caught
    /\ net[1].attempts = PAGE_LIMIT
    /\ Verdict(1).status = "error"
    /\ Verdict(1).error = "Could not access website"

\* C6: when every attempted page failed to fetch (non-success status, timeout
\* or network error), the verdict is an error with the unreachable reason, no
\* phone field, no evidence and zero pages fetched.
C6_AllPagesFailed ==
    \A c \in DOMAIN cw :
        (Returned(c) /\ net[c].attempts > 0 /\ net[c].all_failed) =>
            /\ Verdict(c).status = "error"
            /\ Verdict(c).error = "Could not access website"
            /\ ~Verdict(c).has_phone_field
            /\ Verdict(c).phone_field_details = << >>
            /\ Verdict(c).pages_checked = 0

C6_Witness ==
    /\ Returned(1)
    /\ net[1].attempts = PAGE_LIMIT
    /\ net[1].all_failed
    /\ Verdict(1).status = "error"

\* C17: a page whose fetch returns a non-success status, times out or raises a
\* network error is skipped: the evidence and the pages-fetched count stay as
\* they were, and the crawl goes on to the next candidate page (to the
\* assembly of the verdict after the last one).
C17_FailedPageSkipped ==
    [][ \A o \in Outcomes :
          (FetchFailed(o) /\ Visit(1, o)) =>
            /\ cw'[1].phone_fields = cw[1].phone_fields
            /\ cw'[1].pages_checked = cw[1].pages_checked
            /\ cw'[1].idx = cw[1].idx + 1
            /\ cw'[1].pc = IF cw[1].idx < PAGE_LIMIT THEN "loop" ELSE "assemble" ]_vars

\* the crawl is still going after one page gave an item and another answered
\* with a failure status
C17_Witness ==
    /\ cw[1].pc = "loop"
    /\ net[1].attempts = 2 /\ ~net[1].caught
    /\ cw[1].pages_checked = 1
    /\ Len(cw[1].phone_fields) = 1

\* C18: a fetch counts as failed exactly when the status is not 2xx or the
\* request times out or errors: every 2xx response is counted as a fetched
\* page, and no failed one is.
C18_Every2xxFetched ==
    [][ \A o \in Outcomes :
          /\ (o.kind = "response" /\ o.status \in 200..299 /\ Visit(1, o))
                => cw'[1].pages_checked = cw[1].pages_checked + 1
          /\ (FetchFailed(o) /\ Visit(1, o))
                => cw'[1].pages_checked = cw[1].pages_checked ]_vars

\* C19: a crawl that ends without having requested every candidate page holds
\* a native telephone input item or two items of distinct (kind, name, id).
C19_EarlyStopOnlyOnPolicy ==
    \A c \in DOMAIN cw :
        (Returned(c) /\ cw[c].url.some /\ net[c].attempts < PAGE_LIMIT)
            => StopCondition(cw[c].phone_fields)

\* C20: the pages requested so far are the first pages of the list, in the
\* list's order and each once, the homepage first; and a page is requested
\* only when every page before it has been dealt with.
C20_ListOrderOnceEach ==
    \A c \in DOMAIN cw :
        /\ net[c].requested = SubSeq(PagesChecked, 1, net[c].attempts)
        /\ net[c].attempts >= 1 => net[c].requested[1] = "/"
        /\ Cardinality({ net[c].requested[i] : i \in DOMAIN net[c].requested })
              = Len(net[c].requested)
        /\ cw[c].pc = "loop" => cw[c].idx = net[c].attempts + 1

\* every page of the list was requested, failures among them
C20_Witness ==
    /\ Returned(1)
    /\ net[1].attempts = PAGE_LIMIT
    /\ net[1].requested = PagesChecked
    /\ Verdict(1).pages_checked \in 1..(PAGE_LIMIT - 1)

\* n copies of the character ch
Repeat(ch, n) == [k \in 1..n |-> ch]

\* the strings made of whitespace, an optional scheme, an optional www. and
\* slashes only: nothing is left of them once these are stripped
NothingStrings ==
    { Repeat(" ", a) \o sch \o www \o Repeat("/", k) \o Repeat(" ", d) :
        a \in 0..MaxSiteParts, k \in 0..MaxSiteParts, d \in 0..MaxSiteParts,
        sch \in {<< >>, HttpScheme, HttpsScheme}, www \in {<< >>, WwwPrefix} }

\* the characters such strings are made of
PrefixChars == {" ", "/", "h", "t", "p", "s", ":", "w", "."}

LeavesNothing(w) ==
    /\ \A k \in DOMAIN w : LowerChar(w[k]) \in PrefixChars
    /\ Lower(w) \in NothingStrings

\* C7: a website string that is empty, whitespace-only or leaves nothing after
\* stripping scheme, 'www.' and trailing slashes gives an 'Invalid URL' error
\* verdict, and no request is issued for it.
C7_InvalidUrlNoNetwork ==
    \A c \in DOMAIN cw :
        LeavesNothing(company_data[c].website) =>
            /\ net[c].attempts = 0
            /\ cw[c].pc \in {"start", "done"}
            /\ Returned(c) =>
                  /\ Verdict(c).status = "error"
                  /\ Verdict(c).error = "Invalid URL"
                  /\ ~Verdict(c).has_phone_field

\* a returned verdict for a website made of prefix characters only
C7_Witness ==
    /\ Returned(1)
    /\ LeavesNothing(company_data[1].website)
    /\ Strip(company_data[1].website) # << >>
    /\ Verdict(1).error = "Invalid URL"

(***************************************************************************)
(* SpecLive: one direct call of check_website that keeps running: every     *)
(* req.get returns or raises (it carries a timeout), so the call's next     *)
(* statement is always taken in the end                                     *)
(***************************************************************************)
LiveInit ==
    /\ ex = ExOff /\ lf = LfOff
    /\ nu_pc = "off" /\ nu_x = << >> /\ nu_r1 = None /\ nu_r2 = None
    /\ \E w \in {HostLower, HttpScheme \o WwwPrefix \o HostMixed \o <<"/">>, WwwPrefix} :
          company_data = << [company_name |-> <<"A">>, website |-> w] >>
    /\ cw = << NewCall(company_data[1]) >>
    /\ net = << NoRequests >>
    /\ site = << >>
    /\ fut = << "direct" >>
    /\ results = << >>
    /\ pool_pc = "off"

SpecLive == LiveInit /\ [][Next]_vars /\ WF_vars(Next)

\* C21: every crawl ends with a verdict whose status is 'success' or 'error',
\* and never issues more than 12 requests, however many pages fail or give no
\* evidence.
C21_TerminatesWithin12 ==
    /\ [](\A c \in DOMAIN net : net[c].attempts <= PAGE_LIMIT)
    /\ <>(Returned(1) /\ Verdict(1).status \in {"success", "error"})

\* all twelve pages were fetched, none gave evidence, and the call returned
C21_Witness ==
    /\ Returned(1)
    /\ net[1].attempts = PAGE_LIMIT
    /\ Verdict(1).pages_checked = PAGE_LIMIT
    /\ ~Verdict(1).has_phone_field
    /\ Verdict(1).status = "success"

(***************************************************************************)
(* SpecNorm: normalize_url applied to a website string, and applied again   *)
(* to its own result                                                       *)
(***************************************************************************)
NormInit ==
    /\ ex = ExOff /\ lf = LfOff
    /\ nu_pc = "in"
    /\ nu_x \in UrlInputs
    /\ nu_r1 = None /\ nu_r2 = None
    /\ company_data = << >> /\ cw = << >> /\ net = << >> /\ site = << >> /\ fut = << >>
    /\ results = << >> /\ pool_pc = "off"

NormOnce ==
    /\ nu_pc = "in"
    /\ nu_r1' = normalize_url(nu_x)
    /\ nu_pc' = "once"
    /\ UNCHANGED <<ex, lf, nu_x, nu_r2, company_data, cw, net, site, fut, results, pool_pc>>

NormTwice ==
    /\ nu_pc = "once"
    /\ nu_r1.some
    /\ nu_r2' = normalize_url(nu_r1.val)
    /\ nu_pc' = "twice"
    /\ UNCHANGED <<ex, lf, nu_x, nu_r1, company_data, cw, net, site, fut, results, pool_pc>>

NormNext == NormOnce \/ NormTwice

SpecNorm == NormInit /\ [][NormNext]_vars

\* C8: normalize_url is idempotent: whenever normalize_url(x) succeeds,
\* normalize_url(normalize_url(x)) equals normalize_url(x).
C8_Idempotent == nu_pc = "twice" => nu_r2 = nu_r1

\* C9: normalize_url case-folds: a website string and its lower-cased form
\* normalize to the same, lower-case URL; "WWW.Example.COM/" normalizes to
\* https://example.com.
C9_CaseFolds ==
    nu_pc \in {"once", "twice"} =>
        /\ nu_r1 = normalize_url(Lower(nu_x))
        /\ nu_r1.val = Lower(nu_r1.val)
        /\ nu_x = <<"W","W","W",".">> \o HostMixed \o <<"/">>
              => nu_r1 = Some(HttpsScheme \o HostLower)

(***************************************************************************)
(* SpecPool: process_csv's worker pool crawling NumCompanies companies,     *)
(* each company's requests answered by its own web site                    *)
(***************************************************************************)
NumCompanies == 2

MAX_WORKERS == 10

Companies == 1..NumCompanies

Down == Response(500, EmptyPage, FALSE)

\* a site whose first two candidate pages answer as given and whose other
\* pages answer 500
SiteWith(first, second) ==
    [k \in 1..PAGE_LIMIT |-> IF k = 1 THEN first ELSE IF k = 2 THEN second ELSE Down]

\* a site whose first candidate pages answer as given and whose other pages
\* answer 500
SiteOf(answers) ==
    [k \in 1..PAGE_LIMIT |-> IF k <= Len(answers) THEN answers[k] ELSE Down]

\* <label for="p">Phone</label><input id="p">
LabelPage ==
    LabelledPage(<< Input("", TRUE, "", "p", "") >>, << Label("Phone", "p", 0) >>,
                 FALSE, << >>, << >>)

\* a request (its website string, non-empty as process_csv requires) and the
\* site that answers it
PoolConfigs ==
    { [website |-> WwwPrefix, site |-> SiteWith(Down, Down)],
      [website |-> HostLower, site |-> SiteWith(Down, Down)],
      [website |-> HostLower,
       site |-> SiteWith(Response(200, Page(<< TelQuoted >>, FALSE, Desc, << >>), FALSE), Down)],
      [website |-> HostLower,
       site |-> SiteWith(Response(200, Page(<< TextPhone >>, FALSE, << >>, << >>), FALSE),
                         Response(200, Page(<< TextMobile >>, FALSE, << >>, Desc), FALSE))],
      [website |-> HostLower,
       site |-> SiteWith(Raises("Timeout"), Response(200, Page(<< >>, FALSE, Desc, << >>), FALSE))],
      [website |-> HostLower,
       site |-> SiteOf(<< Response(200, EmptyPage, FALSE), Response(200, LabelPage, FALSE) >>)],
      [website |-> HostLower,
       site |-> SiteOf(<< Response(200, EmptyPage, FALSE), Response(200, LabelPage, FALSE),
                          Response(200, LabelPage, FALSE) >>)] }

\* company names: the first company sorts after the others, which tie
PoolName(c) == IF c = 1 THEN <<"b">> ELSE <<"a">>

\* Python's string order on the characters of names: by code point
CodeOrder == UpperChars \o LowerChars
CharCode(ch) == CHOOSE k \in DOMAIN CodeOrder : CodeOrder[k] = ch

RECURSIVE NameLess(_, _)
NameLess(a, b) ==
    IF b = << >> THEN FALSE
    ELSE IF a = << >> THEN TRUE
    ELSE IF Head(a) # Head(b) THEN CharCode(Head(a)) < CharCode(Head(b))
    ELSE NameLess(Tail(a), Tail(b))

\* r put into the sorted list s after every element that does not sort after it
RECURSIVE InsertByName(_, _)
InsertByName(s, r) ==
    IF s = << >> THEN << r >>
    ELSE IF NameLess(r.company_name, Head(s).company_name) THEN << r >> \o s
    ELSE << Head(s) >> \o InsertByName(Tail(s), r)

\* a return that leaves the results in the order of collection
SortByName_as_collected(s) == s

\* results.sort(key=lambda x: x['company_name']), a stable sort
RECURSIVE SortByName(_)
SortByName(s) ==
    IF s = << >> THEN << >>
    ELSE InsertByName(SortByName(SubSeq(s, 1, Len(s) - 1)), s[Len(s)])

PoolInit ==
    /\ ex = ExOff /\ lf = LfOff
    /\ nu_pc = "off" /\ nu_x = << >> /\ nu_r1 = None /\ nu_r2 = None
    /\ \E cfg \in [Companies -> PoolConfigs] :
          /\ company_data =
                [c \in Companies |-> [company_name |-> PoolName(c), website |-> cfg[c].website]]
          /\ site = [c \in Companies |-> cfg[c].site]
    /\ cw = [c \in Companies |-> NewCall(company_data[c])]
    /\ net = [c \in Companies |-> NoRequests]
    /\ fut = [c \in Companies |-> "queued"]
    /\ results = << >>
    /\ pool_pc = "collect"

\* the calls that occupy a worker thread
InFlight == { c \in DOMAIN fut : fut[c] = "running" /\ cw[c].pc # "done" }

\* an executor that starts a thread for every work item
WorkerAvailable_unbounded(busy) == TRUE

\* ThreadPoolExecutor(max_workers=MAX_WORKERS): a work item is taken by an idle
\* thread, or by a new one while fewer than max_workers exist
WorkerAvailable(busy) == Cardinality(busy) < MAX_WORKERS

\* a worker takes the oldest queued work item
TakeWork(c) ==
    /\ fut[c] = "queued"
    /\ \A d \in DOMAIN fut : d < c => fut[d] # "queued"
    /\ WorkerAvailable(InFlight)
    /\ fut' = [fut EXCEPT ![c] = "running"]
    /\ UNCHANGED <<ex, lf, nu_pc, nu_x, nu_r1, nu_r2, company_data, cw, net, site, results, pool_pc>>

\* a collection that keeps the successful verdicts only
AppendResult_skip_errors(rs, r) == IF r.status = "error" THEN rs ELSE Append(rs, r)

\* results.append(result)
AppendResult(rs, r) == Append(rs, r)

\* as_completed yields a finished future; its result is appended
Collect(c) ==
    /\ pool_pc = "collect"
    /\ fut[c] = "running"
    /\ cw[c].pc \in {"done", "raised"}
    /\ fut' = [fut EXCEPT ![c] = "collected"]
    /\ results' = IF cw[c].pc = "done" THEN AppendResult(results, cw[c].result) ELSE results
    /\ pool_pc' = IF cw[c].pc = "done" THEN pool_pc ELSE "raised"
    /\ UNCHANGED <<ex, lf, nu_pc, nu_x, nu_r1, nu_r2, company_data, cw, net, site>>

\* after the with block: sort the results and return
SortResults ==
    /\ pool_pc = "collect"
    /\ \A c \in DOMAIN fut : fut[c] = "collected"
    /\ results' = SortByName(results)
    /\ pool_pc' = "returned"
    /\ UNCHANGED <<ex, lf, nu_pc, nu_x, nu_r1, nu_r2, company_data, cw, net, site, fut>>

PoolNext ==
    \/ \E c \in Companies :
          \/ TakeWork(c)
          \/ Call(c)
          \/ Visit(c, site[c][cw[c].idx])
          \/ Return(c)
          \/ Collect(c)
    \/ SortResults

SpecPool == PoolInit /\ [][PoolNext]_vars

\* check_website run on its own, from its first statement to its return
RECURSIVE RunCall(_, _, _)
RunCall(l, cd, s) ==
    IF l.pc = "start" THEN RunCall(StartCall(l, cd), cd, s)
    ELSE IF l.pc = "loop" THEN RunCall(LoopBody(l, s[l.idx]), cd, s)
    ELSE IF l.pc = "assemble" THEN RunCall(Assemble(l), cd, s)
    ELSE l

SequentialVerdict(cd, s) == RunCall(NewCall(cd), cd, s).result

\* C4: isolation.  Under every interleaving of the pool's crawls, the verdict
\* of each company is the verdict its own request and its own site's answers
\* give when crawled alone, whatever the other companies' requests and sites
\* are (all pages failing, or an invalid URL, included).
C4_Isolation ==
    \A c \in DOMAIN cw :
        Returned(c) => Verdict(c) = SequentialVerdict(company_data[c], site[c])

\* company 2 returned a qualified verdict while company 1, all of whose pages
\* fail, was in the middle of its crawl
C4_Witness ==
    /\ fut[1] = "running" /\ cw[1].pc = "loop"
    /\ net[1].attempts >= 2 /\ net[1].all_failed
    /\ Returned(2)
    /\ net[2].attempts >= 1
    /\ Verdict(2).has_phone_field
    /\ Verdict(2).status = "success"

\* the homepage of company c's site is fetched and is the document h
HomepageIs(c, h) ==
    /\ normalize_url(company_data[c].website).some
    /\ FetchSucceeded(site[c][1]) /\ ~site[c][1].extract_raises
    /\ site[c][1].html.inputs = h.inputs
    /\ site[c][1].html.labels = h.labels
    /\ site[c][1].html.markers = h.markers

\* C12: when the homepage is fetched and its HTML is the single input
\* <input type="tel" name="phone">, the verdict has has_phone_field true and
\* exactly one evidence item, of kind 'input[type=tel]'.
C12_SingleTelSingleItem ==
    \A c \in DOMAIN cw :
        (Returned(c) /\ HomepageIs(c, Page(<< TelQuoted >>, FALSE, << >>, << >>))) =>
            /\ Verdict(c).has_phone_field
            /\ Len(Verdict(c).phone_field_details) = 1
            /\ Verdict(c).phone_field_details[1].type = NATIVE_TEL

\* the homepage of company c's site is fetched and holds no input, label or
\* form marker, and its /contact page is fetched and is
\* <label for="p">Phone</label><input id="p">
LabelOnContact(c) ==
    /\ HomepageIs(c, EmptyPage)
    /\ PagesChecked[2] = "/contact"
    /\ FetchSucceeded(site[c][2]) /\ ~site[c][2].extract_raises
    /\ site[c][2].html = LabelPage

\* C13, as stated: in that case the verdict has has_phone_field true, a label
\* match item, and a pages-fetched count of exactly two.
C13_LabelOnContactTwoPages ==
    \A c \in DOMAIN cw :
        (Returned(c) /\ LabelOnContact(c)) =>
            /\ Verdict(c).has_phone_field
            /\ \E i \in DOMAIN Verdict(c).phone_field_details :
                  Verdict(c).phone_field_details[i].type = "input[label match]"
            /\ Verdict(c).pages_checked = 2

\* C13, amended: in that case the verdict has has_phone_field true, a label
\* match item, and a pages-fetched count of at least two; the count is exactly
\* two when no later candidate page is fetched successfully.
C13_LabelOnContactAtLeastTwo ==
    \A c \in DOMAIN cw :
        (Returned(c) /\ LabelOnContact(c)) =>
            /\ Verdict(c).has_phone_field
            /\ \E i \in DOMAIN Verdict(c).phone_field_details :
                  Verdict(c).phone_field_details[i].type = "input[label match]"
            /\ Verdict(c).pages_checked >= 2
            /\ (\A k \in 3..PAGE_LIMIT : ~FetchSucceeded(site[c][k]))
                  => Verdict(c).pages_checked = 2

\* the crawl went through all its pages and only the homepage and /contact
\* were fetched
C13_Witness ==
    /\ Returned(1) /\ LabelOnContact(1)
    /\ net[1].attempts = PAGE_LIMIT
    /\ Verdict(1).pages_checked = 2
    /\ Len(Verdict(1).phone_field_details) = 1
    /\ Verdict(1).phone_field_details[1].detection = "label: phone"

\* the number of positions of the list rs that hold r
Occurrences(rs, r) == Cardinality({ i \in DOMAIN rs : rs[i] = r })

\* C16: when process_csv finishes, results holds exactly one verdict for each
\* submitted company: as many entries as companies, and every company's
\* verdict as often as there are companies with that verdict, whatever the
\* order of completion and whether the crawls ended in error or not.
C16_OneVerdictPerCompany ==
    pool_pc = "returned" =>
        /\ Len(results) = Cardinality(DOMAIN company_data)
        /\ \A c \in DOMAIN cw :
              /\ Returned(c)
              /\ Occurrences(results, Verdict(c))
                    = Cardinality({ d \in DOMAIN cw : Verdict(d) = Verdict(c) })

\* the pool returned after one crawl ended in error and another qualified
C16_Witness ==
    /\ pool_pc = "returned"
    /\ Verdict(1).status = "error"
    /\ Verdict(2).status = "success" /\ Verdict(2).has_phone_field
    /\ Len(results) = Cardinality(DOMAIN company_data)

\* C22: the verdict's scraped description is the homepage's: the description
\* of the document fetched from '/', and empty when the homepage was not
\* fetched, whatever descriptions the other pages carry.
C22_DescriptionFromHomepageOnly ==
    \A c \in DOMAIN cw :
        Returned(c) =>
            Verdict(c).scraped_description =
                IF cw[c].url.some /\ FetchSucceeded(site[c][1]) /\ ~site[c][1].extract_raises
                THEN extract_meta_description(site[c][1].html)
                ELSE << >>

\* the homepage timed out, /contact was fetched and has a description, and
\* the verdict has none
C22_Witness ==
    /\ Returned(1)
    /\ site[1][1].kind = "Timeout"
    /\ FetchSucceeded(site[1][2])
    /\ extract_meta_description(site[1][2].html) # << >>
    /\ Verdict(1).pages_checked >= 1
    /\ Verdict(1).scraped_description = << >>

\* qualified = [r for r in results if r['has_phone_field']], as positions
Qualified(rs) == { i \in DOMAIN rs : rs[i].has_phone_field }

\* errors = [r for r in results if r['status'] == 'error'], as positions
Errors(rs) == { i \in DOMAIN rs : rs[i].status = "error" }

\* the stats process_csv returns with the results
Stats(rs) ==
    [ total |-> Len(rs),
      qualified |-> Cardinality(Qualified(rs)),
      not_qualified |-> Len(rs) - Cardinality(Qualified(rs)) - Cardinality(Errors(rs)),
      errors |-> Cardinality(Errors(rs)) ]

\* C28: in every returned verdict has_phone_field implies status 'success'
\* and at least one fetched page, and status 'error' implies no phone field
\* and no evidence; so no result is both qualified and an error, and
\* not_qualified is the number of the remaining results, never negative.
C28_QualifiedImpliesSuccess ==
    /\ \A c \in DOMAIN cw :
          Returned(c) =>
            /\ Verdict(c).has_phone_field =>
                  Verdict(c).status = "success" /\ Verdict(c).pages_checked >= 1
            /\ Verdict(c).status = "error" =>
                  ~Verdict(c).has_phone_field /\ Verdict(c).phone_field_details = << >>
    /\ pool_pc = "returned" =>
          /\ Qualified(results) \cap Errors(results) = {}
          /\ Stats(results).not_qualified >= 0
          /\ Stats(results).not_qualified
                = Cardinality(DOMAIN results \ (Qualified(results) \cup Errors(results)))

\* the pool returned one qualified result and one error
C28_Witness ==
    /\ pool_pc = "returned"
    /\ Stats(results).qualified >= 1
    /\ Stats(results).errors >= 1
    /\ Stats(results).not_qualified = Len(results) - 2
    /\ \E c \in DOMAIN cw : Verdict(c).has_phone_field /\ Verdict(c).pages_checked = 1

(***************************************************************************)
(* SpecWide: process_csv given more companies than the pool has workers.    *)
(* The pool does not look inside a crawl, so every company here has the     *)
(* shortest crawl there is: a website that normalizes to nothing.           *)
(***************************************************************************)
Backlog == 1

WideCompanies == 1..(MAX_WORKERS + Backlog)

WideInit ==
    /\ ex = ExOff /\ lf = LfOff
    /\ nu_pc = "off" /\ nu_x = << >> /\ nu_r1 = None /\ nu_r2 = None
    /\ company_data = [c \in WideCompanies |-> [company_name |-> <<"a">>, website |-> WwwPrefix]]
    /\ site = [c \in WideCompanies |-> << >>]
    /\ cw = [c \in WideCompanies |-> NewCall(company_data[c])]
    /\ net = [c \in WideCompanies |-> NoRequests]
    /\ fut = [c \in WideCompanies |-> "queued"]
    /\ results = << >>
    /\ pool_pc = "collect"

WideNext ==
    \/ \E c \in WideCompanies :
          \/ TakeWork(c)
          \/ Call(c)
          \/ Collect(c)
    \/ SortResults

SpecWide == WideInit /\ [][WideNext]_vars

\* C15: at every moment of process_csv, at most MAX_WORKERS crawls are in
\* flight (taken by a worker and not yet finished), also when more companies
\* were submitted than there are workers.
C15_WorkerLimit == Cardinality(InFlight) <= MAX_WORKERS

\* every worker is busy and a company waits in the queue
C15_Witness ==
    /\ Cardinality(InFlight) = MAX_WORKERS
    /\ \E c \in DOMAIN fut : fut[c] = "queued"


(***************************************************************************)
(* SpecOrder: process_csv over companies whose names are drawn from a      *)
(* small set, so that names repeat and completion order differs from name  *)
(* order; every website is invalid and differs from the others, so each    *)
(* crawl is one step and each verdict is recognisable                      *)
(***************************************************************************)
NumOrdered == 3
OrderedCompanies == 1..NumOrdered
OrderNames == { <<"a">>, <<"b">> }

\* the website of company c: c slashes, which normalize_url rejects
SlashWebsite(c) == [k \in 1..c |-> "/"]

OrderInit ==
    /\ ex = ExOff /\ lf = LfOff
    /\ nu_pc = "off" /\ nu_x = << >> /\ nu_r1 = None /\ nu_r2 = None
    /\ \E nm \in [OrderedCompanies -> OrderNames] :
          company_data = [c \in OrderedCompanies |->
                            [company_name |-> nm[c], website |-> SlashWebsite(c)]]
    /\ site = [c \in OrderedCompanies |-> << >>]
    /\ cw = [c \in OrderedCompanies |-> NewCall(company_data[c])]
    /\ net = [c \in OrderedCompanies |-> NoRequests]
    /\ fut = [c \in OrderedCompanies |-> "queued"]
    /\ results = << >>
    /\ pool_pc = "collect"

OrderNext ==
    \/ \E c \in OrderedCompanies :
          \/ TakeWork(c)
          \/ Call(c)
          \/ Collect(c)
    \/ SortResults

SpecOrder == OrderInit /\ [][OrderNext]_vars

\* C27: the ordering is imposed after collection: process_csv returns only
\* when every future was collected, and the returned list is then in
\* non-decreasing company_name order, whatever the order of completion.
C27_SortedAfterCollection ==
    pool_pc = "returned" =>
        /\ \A c \in DOMAIN fut : fut[c] = "collected"
        /\ Len(results) = Cardinality(DOMAIN fut)
        /\ \A i \in 1..(Len(results) - 1) :
              ~NameLess(results[i + 1].company_name, results[i].company_name)

\* a company named b was collected first and is returned last, after a
\* company named a
C27_Witness ==
    /\ pool_pc = "returned"
    /\ company_data[1].company_name = <<"b">>
    /\ results[1].company_name = <<"a">>
    /\ results[Len(results)].website = company_data[1].website

\* the verdicts in the order in which the companies were submitted
Submitted == [c \in DOMAIN cw |-> Verdict(c)]

\* C29: the returned list does not depend on the order of completion: it is
\* the verdicts of the companies in the order of submission, sorted by name,
\* also where two companies share a company_name.
C29_SameListEveryOrder ==
    pool_pc = "returned" => results = SortByName(Submitted)


(***************************************************************************)
(* SpecLead: one call of lead_finder.check_website, the homepage and every *)
(* subpage answered by any outcome                                         *)
(***************************************************************************)
MaxLinks == 6

\* n links to n different form pages
FormLinks(n) == [k \in 1..n |-> Link("form", k)]

LinkLists ==
    { FormLinks(n) : n \in 0..MaxLinks }
      \cup { << Link("form", 1), Link("plain", 2), Link("form", 1), Link("external", 3),
              Link("form", 4) >>,
            << Link("form", 1), Link("malformed", 2) >> }

LeadPages ==
    { Page(<< >>, FALSE, << >>, << >>),
      Page(<< TextEmail >>, FALSE, << >>, << >>),
      Page(<< TelBare >>, FALSE, << >>, << >>),
      Page(<< HiddenPhone >>, FALSE, << >>, << >>),
      LabelledPage(<< Input("text", TRUE, "", "p", "") >>, << Label("Phone", "p", 0) >>,
                   FALSE, << >>, << >>) }

LeadFailures == { LeadRaises(e) : e \in {"Timeout", "ConnectionError"} }

HomeOutcomes ==
    { LeadResponse(200, h, ls, FALSE) : h \in LeadPages, ls \in LinkLists }
      \cup { LeadResponse(200, Page(<< >>, FALSE, << >>, << >>), FormLinks(2), TRUE) }
      \cup { LeadResponse(st, Page(<< >>, FALSE, << >>, << >>), FormLinks(2), FALSE) :
               st \in {404, 500} }
      \cup LeadFailures

SubpageOutcomes ==
    { LeadResponse(200, h, << >>, FALSE) : h \in LeadPages }
      \cup { LeadResponse(404, h, << >>, FALSE) :
               h \in { Page(<< >>, FALSE, << >>, << >>), Page(<< TelBare >>, FALSE, << >>, << >>) } }
      \cup LeadFailures

LeadInit ==
    /\ ex = ExOff
    /\ \E url \in {HostLower, HttpsScheme \o HostLower}, check_subpages \in BOOLEAN :
          lf = NewLead(url, check_subpages)
    /\ nu_pc = "off" /\ nu_x = << >> /\ nu_r1 = None /\ nu_r2 = None
    /\ company_data = << >> /\ cw = << >> /\ net = << >> /\ site = << >> /\ fut = << >>
    /\ results = << >> /\ pool_pc = "off"

LeadNext ==
    \/ \E o \in HomeOutcomes : LeadHome(o)
    \/ \E o \in SubpageOutcomes : LeadSubpage(o)
    \/ LeadReturn

SpecLead == LeadInit /\ [][LeadNext]_vars

\* the homepage request was answered, and by a failure: an exception or an
\* error status
HomeFailed == lf.home # << >> /\ (lf.home[1].kind # "response" \/ lf.home[1].status >= 400)

\* the homepage request was answered by a page
HomeFetched == lf.home # << >> /\ lf.home[1].kind = "response" /\ lf.home[1].status < 400

\* request i to a subpage was answered by a page with a phone field
SubpageFound(i) ==
    /\ lf.requests[i].outcome.kind = "response"
    /\ check_for_phone_field(lf.requests[i].outcome.html).has_phone_field

\* request i to a subpage failed: an exception or an error status
SubpageFailed(i) ==
    \/ lf.requests[i].outcome.kind # "response"
    \/ lf.requests[i].outcome.status >= 400

\* C30: lead_finder.check_website requests subpages only after a homepage
\* that was fetched and showed no phone field; it requests at most 5 of them
\* and none after the first that shows a phone field; a failed subpage
\* request leaves the status 'success'; a failed homepage request gives
\* status 'error', has_phone_field False and no subpage request.
C30_SubpagesOnlyAfterPlainHomepage ==
    /\ lf.requests # << >> =>
          /\ HomeFetched
          /\ ~check_for_phone_field(lf.home[1].html).has_phone_field
    /\ Len(lf.requests) <= FORM_PAGES_LIMIT
    /\ \A i \in 1..(Len(lf.requests) - 1) : ~SubpageFound(i)
    /\ (lf.pc = "done" /\ \E i \in DOMAIN lf.requests : SubpageFailed(i)) =>
          lf.result.status = "success"
    /\ (lf.pc = "done" /\ HomeFailed) =>
          /\ lf.result.status = "error"
          /\ ~lf.result.has_phone_field
          /\ lf.requests = << >>

\* five subpages were requested, the first failed, the fifth showed a phone
\* field, and the call returned success
C30_Witness ==
    /\ lf.pc = "done"
    /\ Len(lf.requests) = FORM_PAGES_LIMIT
    /\ lf.requests[1].outcome.kind = "Timeout"
    /\ SubpageFound(FORM_PAGES_LIMIT)
    /\ lf.result.status = "success"
    /\ lf.result.has_phone_field

=============================================================================
